---- MODULE Spec2Model ----
(***************************************************************************)
(* A model of smr-ec2 (src/smr/ec2.py), its helper threads                 *)
(* (src/smr/shared.py) and the remote map worker (src/smr/map.py).         *)
(*                                                                         *)
(* One master process: the main thread, one initialization thread per EC2  *)
(* instance, per worker session a stderr thread (the protocol pump) and a  *)
(* stdout thread (the result reader), the reduce thread and the progress   *)
(* thread.  One remote smr-map process per session and one smr-reduce      *)
(* process.  Every blocking call and every access to a shared object is a  *)
(* step of its own, with these exceptions, which join steps that touch no  *)
(* shared object in between: a helper thread's loop test                   *)
(* `while not abort_event.is_set()` is taken in the step that ends the     *)
(* previous iteration (the first one when the thread is started); the      *)
(* worker's download, MAP_FUNC call and status line are one step; the      *)
(* reduce process ending by itself on end of input is part of the main     *)
(* thread's reduce_process.wait().  Queue.get(timeout=2) either returns    *)
(* the head or, when the queue is empty, raises Empty.  The curses display *)
(* thread only reads and is left out.  The events of the environment (an   *)
(* instance, a command, a connection or a download failing, smr-map        *)
(* failing to start, MAP_FUNC raising or writing a result line, the reduce *)
(* process ending, a user interrupt) share one budget, MaxEvents.          *)
(***************************************************************************)
EXTENDS Integers, Sequences, FiniteSets, TLC

\* ------------------------------------------------------------------ bounds
\* the largest number of input files (files_total is drawn from 1..MaxItems)
MaxItems == 2
\* config.aws_ec2_workers: the number of EC2 instances
NumInstances == 2
\* config.workers: smr-map processes per instance
NumWorkers == 1
\* len(config.AWS_EC2_INITIALIZE_SMR_COMMANDS) plus the pip installs
NumCommands == 2
\* how many environment events one run may hold: an instance that does not
\* reach "running", a bootstrap command that fails, a connection that fails,
\* a download that fails, a MAP_FUNC call that raises, a result line that
\* MAP_FUNC writes, the reduce process ending by itself, a user interrupt
MaxEvents == 2
\* config.DOWNLOAD_RETRIES (map.py line 35)
DOWNLOAD_RETRIES == 1

Items == 1..MaxItems
Instances == 1..NumInstances
NumSessions == NumInstances * NumWorkers
Sessions == 1..NumSessions

VARIABLES
    files_total,            \* len(file_names)
    input_queue,            \* Queue(files_total): the TaskQueue
    processed_files_queue,  \* Queue(files_total): acknowledged file names
    output_queue,           \* Queue(): result lines, unbounded
    abort_event,            \* threading.Event: the AbortFlag
    mainpc, mainidx,        \* the main thread and its loop index
    inst,                   \* per instance: the initialization thread
    terminate_calls,        \* number of conn.terminate_instances calls
    pump,                   \* per session: pc of worker_stderr_read_thread
    worker,                 \* per session: the remote smr-map process
    stdin, stdin_closed,    \* per session: the assignment endpoint
    stderr,                 \* per session: the status endpoint
    stdout,                 \* per session: the result endpoint
    reduce_pc, result,      \* reduce_thread and the result it holds
    reduce_process,         \* the smr-reduce process
    reduce_stdin,           \* what was written to its stdin
    reduce_stdin_closed,
    progress_pc, files_processed,   \* progress_thread and its counter
    \* history variables, read by the properties only
    outstanding,            \* per session: items written and not yet answered
    acks,                   \* per item: number of "+item" lines handled
    abortBy,                \* the source line that set abort_event first
    occurred,               \* the kinds of environment events so far
    arrived,                \* all entries put into output_queue, in order
    emitted,                \* per item: result lines written by workers
    events                  \* the number of environment events so far

vars == <<files_total, input_queue, processed_files_queue, output_queue,
          abort_event, mainpc, mainidx, inst, terminate_calls, pump, worker,
          stdin, stdin_closed, stderr, stdout, reduce_pc, result,
          reduce_process, reduce_stdin, reduce_stdin_closed, progress_pc,
          files_processed, outstanding, acks, abortBy, occurred, arrived,
          emitted, events>>

queues == <<input_queue, processed_files_queue, output_queue>>
mainv == <<mainpc, mainidx>>
channels == <<stdin, stdin_closed, stderr, stdout>>
reducev == <<reduce_pc, result, reduce_process, reduce_stdin,
             reduce_stdin_closed>>
progressv == <<progress_pc, files_processed>>
history == <<outstanding, acks, arrived, emitted, events, occurred>>
abortv == <<abort_event, abortBy>>

\* the file names 1..n in input order (ec2.py 216-221)
RECURSIVE Seeded(_)
Seeded(n) == IF n = 0 THEN <<>> ELSE Append(Seeded(n - 1), n)

NoWorker == [pc |-> "off", cur |-> 0, tries |-> 0, code |-> 0]

\* ec2.py 209-238: the queues are seeded, the instances requested and one
\* initialization thread per instance started
Init ==
    /\ files_total \in 1..MaxItems
    /\ input_queue = Seeded(files_total)
    /\ processed_files_queue = <<>>
    /\ output_queue = <<>>
    /\ abort_event = FALSE
    /\ mainpc = "join_init"
    /\ mainidx = 1
    /\ inst = [i \in Instances |-> [pc |-> "wait", cmd |-> 1, ssh |-> FALSE]]
    /\ terminate_calls = 0
    /\ pump = [s \in Sessions |-> "off"]
    /\ worker = [s \in Sessions |-> NoWorker]
    /\ stdin = [s \in Sessions |-> <<>>]
    /\ stdin_closed = [s \in Sessions |-> FALSE]
    /\ stderr = [s \in Sessions |-> <<>>]
    /\ stdout = [s \in Sessions |-> <<>>]
    /\ reduce_pc = "off"
    /\ result = <<>>
    /\ reduce_process = "none"
    /\ reduce_stdin = <<>>
    /\ reduce_stdin_closed = FALSE
    /\ progress_pc = "off"
    /\ files_processed = 0
    /\ outstanding = [s \in Sessions |-> [f \in Items |-> 0]]
    /\ acks = [f \in Items |-> 0]
    /\ abortBy = "none"
    /\ occurred = {}
    /\ arrived = <<>>
    /\ emitted = [f \in Items |-> 0]
    /\ events = 0

\* one more environment event, of kind `kind`, while the run may hold one
Event(kind) ==
    /\ events < MaxEvents
    /\ events' = events + 1
    /\ occurred' = occurred \cup {kind}

\* SetAbort that flips the flag instead of setting it
SetAbortFlipped(line) ==
    /\ abort_event' = ~abort_event
    /\ abortBy' = IF abort_event THEN abortBy ELSE line

\* abort_event.set() at source line `line`
SetAbort(line) ==
    /\ abort_event' = TRUE
    /\ abortBy' = IF abort_event THEN abortBy ELSE line

\* The master process is gone: the main thread has ended and so have the
\* non-daemon threads (reduce_thread, progress_thread); the daemon threads
\* (the pumps and the stdout readers) die with it.
ProcessExited ==
    /\ mainpc \in {"done", "exit1"}
    /\ reduce_pc \in {"off", "done", "crashed"}
    /\ progress_pc \in {"off", "done"}

\* conn.terminate_instances(instance_ids): every remote worker still running
\* is killed with its instance
Killed(w) == IF w.pc \in {"off", "exited"} THEN w
             ELSE [w EXCEPT !.pc = "exited", !.code = 255]

TerminateInstances ==
    /\ terminate_calls' = terminate_calls + 1
    /\ worker' = [s \in Sessions |-> Killed(worker[s])]

\* InstanceFailed without line 92: the thread returns and abort_event stays
\* as it is
InstanceFailedUnreported(i) ==
    /\ inst[i].pc = "wait"
    /\ Event("instance")
    /\ inst' = [inst EXCEPT ![i].pc = "done"]
    /\ UNCHANGED <<files_total, queues, abortv, mainv, terminate_calls, pump,
                   worker, channels, reducev, progressv, outstanding, acks,
                   arrived, emitted>>

\* ------------------------------------------------- initialization threads
\* wait_for_instance returns False: the instance ended in a status other
\* than "running" (ec2.py 83-85, 91-93)
InstanceFailed(i) ==
    /\ inst[i].pc = "wait"
    /\ Event("instance")
    /\ inst' = [inst EXCEPT ![i].pc = "done"]
    /\ SetAbort("L92")
    /\ UNCHANGED <<files_total, queues, mainv, terminate_calls, pump, worker,
                   channels, reducev, progressv, outstanding, acks, arrived,
                   emitted>>

\* wait_for_instance returns True and ssh.connect succeeds, after any number
\* of retries (ec2.py 87-104)
InstanceRunning(i) ==
    /\ inst[i].pc = "wait"
    /\ inst' = [inst EXCEPT ![i].pc = "cmd", ![i].ssh = TRUE]
    /\ UNCHANGED <<files_total, queues, abortv, mainv, terminate_calls, pump,
                   worker, channels, reducev, progressv, history>>

\* where the thread goes after command number c returned
AfterCommand(c) == IF c = NumCommands THEN "sftp" ELSE "cmd"

\* run_command on an open connection; the exit code is 0 (ec2.py 122-136)
RunCommandOk(i) ==
    /\ inst[i].pc = "cmd"
    /\ inst[i].ssh
    /\ inst' = [inst EXCEPT ![i].pc = AfterCommand(inst[i].cmd),
                            ![i].cmd = inst[i].cmd + 1]
    /\ UNCHANGED <<files_total, queues, abortv, mainv, terminate_calls, pump,
                   worker, channels, reducev, progressv, history>>

\* run_command: the exit code is not 0; ssh.close() and return False, a value
\* initialize_instance_thread does not look at (ec2.py 132-135, 108)
RunCommandFailed(i) ==
    /\ inst[i].pc = "cmd"
    /\ inst[i].ssh
    /\ Event("command")
    /\ inst' = [inst EXCEPT ![i].pc = AfterCommand(inst[i].cmd),
                            ![i].cmd = inst[i].cmd + 1,
                            ![i].ssh = FALSE]
    /\ UNCHANGED <<files_total, queues, abortv, mainv, terminate_calls, pump,
                   worker, channels, reducev, progressv, outstanding, acks,
                   arrived, emitted>>

\* the next use of a closed connection (get_transport() is None, open_sftp
\* has no transport) raises, and the thread ends with the exception
\* (ec2.py 123, 115)
UseClosedSsh(i) ==
    /\ inst[i].pc \in {"cmd", "sftp"}
    /\ ~inst[i].ssh
    /\ inst' = [inst EXCEPT ![i].pc = "crashed"]
    /\ UNCHANGED <<files_total, queues, abortv, mainv, terminate_calls, pump,
                   worker, channels, reducev, progressv, history>>

\* the config is copied and the connection closed (ec2.py 114-120)
CopyConfig(i) ==
    /\ inst[i].pc = "sftp"
    /\ inst[i].ssh
    /\ inst' = [inst EXCEPT ![i].pc = "done", ![i].ssh = FALSE]
    /\ UNCHANGED <<files_total, queues, abortv, mainv, terminate_calls, pump,
                   worker, channels, reducev, progressv, history>>

InitThreadEnded(i) == inst[i].pc \in {"done", "crashed"}


\* ------------------------------------------------------------ main thread
\* the joins of the initialization threads return with abort_event set:
\* terminate all instances and exit (ec2.py 241-247)
MainInitAborted ==
    /\ mainpc = "join_init"
    /\ \A i \in Instances : InitThreadEnded(i)
    /\ abort_event
    /\ TerminateInstances
    /\ mainpc' = "exit1"
    /\ UNCHANGED <<files_total, queues, abortv, mainidx, inst, pump, channels,
                   reducev, progressv, history>>

\* ... with abort_event clear: go on to start the workers (ec2.py 244-253)
MainInitOk ==
    /\ mainpc = "join_init"
    /\ \A i \in Instances : InitThreadEnded(i)
    /\ ~abort_event
    /\ mainpc' = "start_worker"
    /\ mainidx' = 1
    /\ UNCHANGED <<files_total, queues, abortv, inst, terminate_calls, pump,
                   worker, channels, reducev, progressv, history>>

\* start_worker: ssh.connect succeeds, smr-map is started on the instance
\* and the session's two daemon threads are started (ec2.py 138-159)
StartWorkerOk(s) ==
    /\ mainpc = "start_worker"
    /\ mainidx = s
    /\ worker' = [worker EXCEPT ![s].pc = "read"]
    /\ pump' = [pump EXCEPT ![s] = "first"]
    /\ IF s = NumSessions
         THEN mainpc' = "start_reduce" /\ mainidx' = 1
         ELSE mainpc' = mainpc /\ mainidx' = s + 1
    /\ UNCHANGED <<files_total, queues, abortv, inst, terminate_calls,
                   channels, reducev, progressv, history>>

\* start_worker: ssh.connect raises; abort_event.set() and sys.exit(1) in
\* the main thread (ec2.py 143-146)
StartWorkerFailed(s) ==
    /\ mainpc = "start_worker"
    /\ mainidx = s
    /\ Event("connect")
    /\ SetAbort("L145")
    /\ mainpc' = "exit1"
    /\ UNCHANGED <<files_total, queues, mainidx, inst, terminate_calls, pump,
                   worker, channels, reducev, progressv, outstanding, acks,
                   arrived, emitted>>

\* the loop test of reduce_thread and, with abort_event set, the
\* reduce_process.stdin.close() that follows the loop (shared.py 129, 143)
ReduceLoop ==
    IF abort_event
      THEN reduce_pc' = "done" /\ reduce_stdin_closed' = TRUE
      ELSE reduce_pc' = "get" /\ UNCHANGED reduce_stdin_closed

\* the loop test of progress_thread (shared.py 173)
ProgressLoop == progress_pc' = IF abort_event THEN "done" ELSE "get"

\* smr-reduce, reduce_thread and progress_thread are started; each thread
\* takes its first loop test as it starts (ec2.py 257-271)
MainStartHelpers ==
    /\ mainpc = "start_reduce"
    /\ reduce_process' = "running"
    /\ ReduceLoop
    /\ ProgressLoop
    /\ mainpc' = "join"
    /\ mainidx' = 1
    /\ UNCHANGED <<files_total, queues, abortv, inst, terminate_calls, pump,
                   worker, channels, result, reduce_stdin, files_processed,
                   history>>

PumpEnded(s) == pump[s] \in {"done", "exit1"}

\* w.join() returns for the next pump (ec2.py 274-275)
MainJoin ==
    /\ mainpc = "join"
    /\ PumpEnded(mainidx)
    /\ IF mainidx = NumSessions
         THEN mainpc' = "finish" /\ mainidx' = 1
         ELSE mainpc' = mainpc /\ mainidx' = mainidx + 1
    /\ UNCHANGED <<files_total, queues, abortv, inst, terminate_calls, pump,
                   worker, channels, reducev, progressv, history>>

\* KeyboardInterrupt while joining (ec2.py 276-282)
MainInterrupt ==
    /\ mainpc = "join"
    /\ Event("interrupt")
    /\ SetAbort("L277")
    /\ TerminateInstances
    /\ mainpc' = "exit1"
    /\ UNCHANGED <<files_total, queues, mainidx, inst, pump, channels,
                   reducev, progressv, outstanding, acks, arrived, emitted>>

\* every pump is joined: terminate the instances and abort_event.set(), which
\* is what stops the helper threads (ec2.py 284-286)
MainFinish ==
    /\ mainpc = "finish"
    /\ TerminateInstances
    /\ SetAbort("L286")
    /\ mainpc' = "recv"
    /\ mainidx' = 1
    /\ UNCHANGED <<files_total, queues, inst, pump, channels, reducev,
                   progressv, history>>

\* chan.recv_exit_status() of the next worker (ec2.py 288-292)
MainRecvExit ==
    /\ mainpc = "recv"
    /\ worker[mainidx].pc = "exited"
    /\ IF worker[mainidx].code # 0
         THEN mainpc' = "exit1" /\ mainidx' = mainidx
         ELSE IF mainidx = NumSessions
                THEN mainpc' = "join_reduce" /\ mainidx' = 1
                ELSE mainpc' = mainpc /\ mainidx' = mainidx + 1
    /\ UNCHANGED <<files_total, queues, abortv, inst, terminate_calls, pump,
                   worker, channels, reducev, progressv, history>>

\* reduce_worker.join() (ec2.py 295)
MainJoinReduce ==
    /\ mainpc = "join_reduce"
    /\ reduce_pc \in {"done", "crashed"}
    /\ mainpc' = "wait_reduce"
    /\ UNCHANGED <<files_total, queues, abortv, mainidx, inst,
                   terminate_calls, pump, worker, channels, reducev,
                   progressv, history>>

\* reduce_process.wait() and the check of its return code: the reduce
\* process has ended by itself, or its stdin is closed and it ends with
\* status 0 (ec2.py 296-303)
MainWaitReduce ==
    /\ mainpc = "wait_reduce"
    /\ \/ /\ reduce_process = "exited1"
          /\ mainpc' = "exit1"
          /\ UNCHANGED reduce_process
       \/ /\ reduce_process = "running"
          /\ reduce_stdin_closed
          /\ mainpc' = "done"
          /\ reduce_process' = "exited0"
    /\ UNCHANGED <<files_total, queues, abortv, mainidx, inst,
                   terminate_calls, pump, worker, channels, reduce_pc, result,
                   reduce_stdin, reduce_stdin_closed, progressv, history>>

\* ---------------------------------------------- write_file_to_descriptor
Inc(bag, f) == [bag EXCEPT ![f] = @ + 1]
Dec(bag, f) == [bag EXCEPT ![f] = IF @ > 0 THEN @ - 1 ELSE 0]

\* WriteFileWritten that reads the head of input_queue and leaves it there
WriteFilePeeked(s) ==
    /\ input_queue # <<>>
    /\ input_queue' = input_queue
    /\ stdin' = [stdin EXCEPT ![s] = Append(@, Head(input_queue))]
    /\ outstanding' = [outstanding EXCEPT ![s] = Inc(@, Head(input_queue))]

\* input_queue.get returned a file name and it was written to the
\* descriptor: returns True (shared.py 188-192)
WriteFileWritten(s) ==
    /\ input_queue # <<>>
    /\ input_queue' = Tail(input_queue)
    /\ stdin' = [stdin EXCEPT ![s] = Append(@, Head(input_queue))]
    /\ outstanding' = [outstanding EXCEPT ![s] = Inc(@, Head(input_queue))]

\* input_queue.get raised Empty: descriptor.close(), returns False
\* (shared.py 193-196)
WriteFileEmpty(s) ==
    /\ input_queue = <<>>
    /\ UNCHANGED <<input_queue, stdin, outstanding>>

\* input_queue.get returned a file name and descriptor.write raised IOError,
\* which a channel whose remote end has exited does: returns False, and the
\* file name is in no queue any more (shared.py 188-189, 197-198)
WriteFileIOError(s) ==
    /\ input_queue # <<>>
    /\ worker[s].pc = "exited"
    /\ input_queue' = Tail(input_queue)
    /\ UNCHANGED <<stdin, outstanding>>

WriteFileFalse(s) == WriteFileEmpty(s) \/ WriteFileIOError(s)

\* ------------------------------------- worker_stderr_read_thread (the pump)
\* the abort check of line 35; with the event set the first write is skipped
PumpFirstCheck(s) ==
    /\ pump[s] = "first"
    /\ ~ProcessExited
    /\ pump' = [pump EXCEPT ![s] = IF abort_event THEN "read" ELSE "firstwrite"]
    /\ UNCHANGED <<files_total, queues, abortv, mainv, inst, terminate_calls,
                   worker, channels, reducev, progressv, history>>

\* the first write, done (ec2.py 35)
PumpFirstWritten(s) ==
    /\ pump[s] = "firstwrite"
    /\ ~ProcessExited
    /\ WriteFileWritten(s)
    /\ pump' = [pump EXCEPT ![s] = "read"]
    /\ UNCHANGED <<files_total, processed_files_queue, output_queue, abortv,
                   mainv, inst, terminate_calls, worker, stdin_closed, stderr,
                   stdout, reducev, progressv, acks, arrived, emitted,
                   events, occurred>>

\* the first write returned False: chan.shutdown_write(), abort_event.set()
\* and sys.exit(1), which ends this thread only (ec2.py 35-38)
PumpFirstFailed(s) ==
    /\ pump[s] = "firstwrite"
    /\ ~ProcessExited
    /\ WriteFileFalse(s)
    /\ stdin_closed' = [stdin_closed EXCEPT ![s] = TRUE]
    /\ SetAbort("L37")
    /\ pump' = [pump EXCEPT ![s] = "exit1"]
    /\ UNCHANGED <<files_total, processed_files_queue, output_queue, mainv,
                   inst, terminate_calls, worker, stderr, stdout, reducev,
                   progressv, acks, arrived, emitted, events, occurred>>

\* the head of the session's status endpoint
Line(s) == Head(stderr[s])

\* stderr.readline returned "+file_name": processed_files_queue.put, which
\* blocks while that queue is full (ec2.py 40-44)
PumpAck(s) ==
    /\ pump[s] = "read"
    /\ ~ProcessExited
    /\ stderr[s] # <<>>
    /\ Line(s)[1] = "+"
    /\ Len(processed_files_queue) < files_total
    /\ processed_files_queue' = Append(processed_files_queue, Line(s)[2])
    /\ stderr' = [stderr EXCEPT ![s] = Tail(@)]
    /\ acks' = Inc(acks, Line(s)[2])
    /\ outstanding' = [outstanding EXCEPT ![s] = Dec(@, Line(s)[2])]
    /\ pump' = [pump EXCEPT ![s] = "chk"]
    /\ UNCHANGED <<files_total, input_queue, output_queue, abortv, mainv,
                   inst, terminate_calls, worker, stdin, stdin_closed, stdout,
                   reducev, progressv, arrived, emitted, events, occurred>>

\* PumpRequeue that gives up on the item: the failure is escalated with
\* abort_event.set() and the item is not put back
PumpRequeueEscalated(s) ==
    /\ pump[s] = "read"
    /\ ~ProcessExited
    /\ stderr[s] # <<>>
    /\ Line(s)[1] = "!"
    /\ SetAbort("L48")
    /\ stderr' = [stderr EXCEPT ![s] = Tail(@)]
    /\ outstanding' = [outstanding EXCEPT ![s] = Dec(@, Line(s)[2])]
    /\ pump' = [pump EXCEPT ![s] = "chk"]
    /\ UNCHANGED <<files_total, queues, mainv, inst, terminate_calls, worker,
                   stdin, stdin_closed, stdout, reducev, progressv, acks,
                   arrived, emitted, events, occurred>>

\* PumpRequeue that gives the session up after the put: it closes the write
\* side and leaves the loop without another take
PumpRequeueLeaves(s) ==
    /\ pump[s] = "read"
    /\ ~ProcessExited
    /\ stderr[s] # <<>>
    /\ Line(s)[1] = "!"
    /\ Len(input_queue) < files_total
    /\ input_queue' = Append(input_queue, Line(s)[2])
    /\ stderr' = [stderr EXCEPT ![s] = Tail(@)]
    /\ stdin_closed' = [stdin_closed EXCEPT ![s] = TRUE]
    /\ outstanding' = [outstanding EXCEPT ![s] = Dec(@, Line(s)[2])]
    /\ pump' = [pump EXCEPT ![s] = "after"]
    /\ UNCHANGED <<files_total, processed_files_queue, output_queue, abortv,
                   mainv, inst, terminate_calls, worker, stdin, stdout,
                   reducev, progressv, acks, arrived, emitted, events,
                   occurred>>

\* stderr.readline returned "!file_name": input_queue.put, which blocks while
\* that queue is full (ec2.py 45-48)
PumpRequeue(s) ==
    /\ pump[s] = "read"
    /\ ~ProcessExited
    /\ stderr[s] # <<>>
    /\ Line(s)[1] = "!"
    /\ Len(input_queue) < files_total
    /\ input_queue' = Append(input_queue, Line(s)[2])
    /\ stderr' = [stderr EXCEPT ![s] = Tail(@)]
    /\ outstanding' = [outstanding EXCEPT ![s] = Dec(@, Line(s)[2])]
    /\ pump' = [pump EXCEPT ![s] = "chk"]
    /\ UNCHANGED <<files_total, processed_files_queue, output_queue, abortv,
                   mainv, inst, terminate_calls, worker, stdin, stdin_closed,
                   stdout, reducev, progressv, acks, arrived, emitted,
                   events, occurred>>

\* PumpInvalid without the else branch: a line that is no "!" line is taken
\* for an acknowledgment
PumpInvalidAcked(s) ==
    /\ pump[s] = "read"
    /\ ~ProcessExited
    /\ stderr[s] # <<>>
    /\ Line(s)[1] \notin {"+", "!"}
    /\ processed_files_queue' = Append(processed_files_queue, Line(s)[2])
    /\ stderr' = [stderr EXCEPT ![s] = Tail(@)]
    /\ pump' = [pump EXCEPT ![s] = "chk"]
    /\ UNCHANGED <<files_total, input_queue, output_queue, abortv, mainv, inst,
                   terminate_calls, worker, stdin, stdin_closed, stdout,
                   reducev, progressv, history>>

\* stderr.readline returned any other line (ec2.py 49-50)
PumpInvalid(s) ==
    /\ pump[s] = "read"
    /\ ~ProcessExited
    /\ stderr[s] # <<>>
    /\ Line(s)[1] \notin {"+", "!"}
    /\ stderr' = [stderr EXCEPT ![s] = Tail(@)]
    /\ pump' = [pump EXCEPT ![s] = "chk"]
    /\ UNCHANGED <<files_total, queues, abortv, mainv, inst, terminate_calls,
                   worker, stdin, stdin_closed, stdout, reducev, progressv,
                   history>>

\* stderr.readline returned "": the worker has exited and every line it
\* wrote was read; the for loop ends (ec2.py 40)
PumpEof(s) ==
    /\ pump[s] = "read"
    /\ ~ProcessExited
    /\ stderr[s] = <<>>
    /\ worker[s].pc = "exited"
    /\ pump' = [pump EXCEPT ![s] = "after"]
    /\ UNCHANGED <<files_total, queues, abortv, mainv, inst, terminate_calls,
                   worker, channels, reducev, progressv, history>>

\* the abort check after a status line (ec2.py 52-53)
PumpCheckAbort(s) ==
    /\ pump[s] = "chk"
    /\ ~ProcessExited
    /\ pump' = [pump EXCEPT ![s] = IF abort_event THEN "after" ELSE "write"]
    /\ UNCHANGED <<files_total, queues, abortv, mainv, inst, terminate_calls,
                   worker, channels, reducev, progressv, history>>

\* the next file name is written (ec2.py 54)
PumpWritten(s) ==
    /\ pump[s] = "write"
    /\ ~ProcessExited
    /\ WriteFileWritten(s)
    /\ pump' = [pump EXCEPT ![s] = "exitchk"]
    /\ UNCHANGED <<files_total, processed_files_queue, output_queue, abortv,
                   mainv, inst, terminate_calls, worker, stdin_closed, stderr,
                   stdout, reducev, progressv, acks, arrived, emitted,
                   events, occurred>>

\* the write returned False: chan.shutdown_write() and break (ec2.py 54-57)
PumpWriteFailed(s) ==
    /\ pump[s] = "write"
    /\ ~ProcessExited
    /\ WriteFileFalse(s)
    /\ stdin_closed' = [stdin_closed EXCEPT ![s] = TRUE]
    /\ pump' = [pump EXCEPT ![s] = "after"]
    /\ UNCHANGED <<files_total, processed_files_queue, output_queue, abortv,
                   mainv, inst, terminate_calls, worker, stderr, stdout,
                   reducev, progressv, acks, arrived, emitted, events,
                   occurred>>

\* chan.exit_status_ready() after a write (ec2.py 59-60)
PumpExitCheck(s) ==
    /\ pump[s] = "exitchk"
    /\ ~ProcessExited
    /\ pump' = [pump EXCEPT ![s] =
                   IF worker[s].pc = "exited" THEN "after" ELSE "read"]
    /\ UNCHANGED <<files_total, queues, abortv, mainv, inst, terminate_calls,
                   worker, channels, reducev, progressv, history>>

\* after the loop: with abort_event set ssh.close() at once, otherwise poll
\* for the exit status first (ec2.py 62-66)
PumpAfter(s) ==
    /\ pump[s] = "after"
    /\ ~ProcessExited
    /\ IF abort_event
         THEN /\ pump' = [pump EXCEPT ![s] = "done"]
              /\ stdin_closed' = [stdin_closed EXCEPT ![s] = TRUE]
         ELSE /\ pump' = [pump EXCEPT ![s] = "wait"]
              /\ UNCHANGED stdin_closed
    /\ UNCHANGED <<files_total, queues, abortv, mainv, inst, terminate_calls,
                   worker, stdin, stderr, stdout, reducev, progressv,
                   history>>

\* the exit status is ready: ssh.close() (ec2.py 63-66)
PumpWait(s) ==
    /\ pump[s] = "wait"
    /\ ~ProcessExited
    /\ worker[s].pc = "exited"
    /\ pump' = [pump EXCEPT ![s] = "done"]
    /\ stdin_closed' = [stdin_closed EXCEPT ![s] = TRUE]
    /\ UNCHANGED <<files_total, queues, abortv, mainv, inst, terminate_calls,
                   worker, stdin, stderr, stdout, reducev, progressv,
                   history>>


\* smr-map ends before it reads a file name: get_config, boto.connect_s3 or
\* get_bucket raised, which no except clause takes; the traceback goes to
\* stderr and the process exits with code 1 (map.py 12-21, 48)
WorkerStartFailed(s) ==
    /\ worker[s].pc = "read"
    /\ worker[s].cur = 0
    /\ Event("start")
    /\ stderr' = [stderr EXCEPT ![s] = Append(@, <<"Traceback", 0>>)]
    /\ worker' = [worker EXCEPT ![s].pc = "exited", ![s].code = 1]
    /\ UNCHANGED <<files_total, queues, abortv, mainv, inst, terminate_calls,
                   pump, stdin, stdin_closed, stdout, reducev, progressv,
                   outstanding, acks, arrived, emitted>>

\* ------------------------------------------------- smr-map (the worker)
\* sys.stdin.readline returned a file name (map.py 23-29)
WorkerRead(s) ==
    /\ worker[s].pc = "read"
    /\ stdin[s] # <<>>
    /\ worker' = [worker EXCEPT ![s].pc = "download",
                                ![s].cur = Head(stdin[s]),
                                ![s].tries = 0]
    /\ stdin' = [stdin EXCEPT ![s] = Tail(@)]
    /\ UNCHANGED <<files_total, queues, abortv, mainv, inst, terminate_calls,
                   pump, stdin_closed, stderr, stdout, reducev, progressv,
                   history>>

\* sys.stdin.readline returned "": the loop ends, exit code 0 (map.py 23)
WorkerEof(s) ==
    /\ worker[s].pc = "read"
    /\ stdin[s] = <<>>
    /\ stdin_closed[s]
    /\ worker' = [worker EXCEPT ![s].pc = "exited", ![s].code = 0]
    /\ UNCHANGED <<files_total, queues, abortv, mainv, inst, terminate_calls,
                   pump, channels, reducev, progressv, history>>

\* the status lines a failed download writes: "!file_name" once tries has
\* reached DOWNLOAD_RETRIES, nothing before (map.py 34-38)
FailureLines(tries, f) ==
    IF tries >= DOWNLOAD_RETRIES THEN << <<"!", f>> >> ELSE <<>>

\* get_contents_to_filename raised; the while loop goes round again, also
\* after "!file_name" was written (map.py 30-38)
WorkerDownloadFailed(s) ==
    /\ worker[s].pc = "download"
    /\ Event("download")
    /\ worker' = [worker EXCEPT ![s].tries = @ + 1]
    /\ stderr' = [stderr EXCEPT ![s] =
                     @ \o FailureLines(worker[s].tries + 1, worker[s].cur)]
    /\ UNCHANGED <<files_total, queues, abortv, mainv, inst, terminate_calls,
                   pump, stdin, stdin_closed, stdout, reducev, progressv,
                   outstanding, acks, arrived, emitted>>

\* get_contents_to_filename returned (break) and MAP_FUNC returned without
\* writing to stdout; then "+file_name" is written to stderr
\* (map.py 32, 39-47)
WorkerMappedQuiet(s) ==
    /\ worker[s].pc = "download"
    /\ stderr' = [stderr EXCEPT ![s] = Append(@, <<"+", worker[s].cur>>)]
    /\ worker' = [worker EXCEPT ![s].pc = "read"]
    /\ UNCHANGED <<files_total, queues, abortv, mainv, inst, terminate_calls,
                   pump, stdin, stdin_closed, stdout, reducev, progressv,
                   history>>

\* ... and MAP_FUNC returned, having written one result line to stdout
WorkerMapped(s) ==
    /\ worker[s].pc = "download"
    /\ Event("result")
    /\ stdout' = [stdout EXCEPT ![s] = Append(@, <<s, worker[s].cur>>)]
    /\ stderr' = [stderr EXCEPT ![s] = Append(@, <<"+", worker[s].cur>>)]
    /\ emitted' = Inc(emitted, worker[s].cur)
    /\ worker' = [worker EXCEPT ![s].pc = "read"]
    /\ UNCHANGED <<files_total, queues, abortv, mainv, inst, terminate_calls,
                   pump, stdin, stdin_closed, reducev, progressv, outstanding,
                   acks, arrived>>

\* get_contents_to_filename returned and MAP_FUNC raised: no except clause
\* takes it, the traceback goes to stderr and the process exits with code 1
\* (map.py 41-50)
WorkerMapRaised(s) ==
    /\ worker[s].pc = "download"
    /\ Event("raise")
    /\ stderr' = [stderr EXCEPT ![s] = Append(@, <<"Traceback", 0>>)]
    /\ worker' = [worker EXCEPT ![s].pc = "exited", ![s].code = 1]
    /\ UNCHANGED <<files_total, queues, abortv, mainv, inst, terminate_calls,
                   pump, stdin, stdin_closed, stdout, reducev, progressv,
                   outstanding, acks, arrived, emitted>>

\* ------------------------------------------------ worker_stdout_read_thread
\* stdout.readline returned a line: output_queue.put(line) (ec2.py 24-27)
ReadResult(s) ==
    /\ pump[s] # "off"
    /\ ~ProcessExited
    /\ stdout[s] # <<>>
    /\ output_queue' = Append(output_queue, Head(stdout[s]))
    /\ arrived' = Append(arrived, Head(stdout[s]))
    /\ stdout' = [stdout EXCEPT ![s] = Tail(@)]
    /\ UNCHANGED <<files_total, input_queue, processed_files_queue, abortv,
                   mainv, inst, terminate_calls, pump, worker, stdin,
                   stdin_closed, stderr, reducev, progressv, outstanding,
                   acks, emitted, events, occurred>>

\* ------------------------------------------------------------ reduce_thread
\* The loop test `while not abort_event.is_set()` is taken in the step that
\* ends an iteration (the first one in the step that starts the thread), so
\* that the thread waits in output_queue.get and nowhere else.

\* output_queue.get raised Empty (shared.py 132, 141-142)
ReduceEmpty ==
    /\ reduce_pc = "get"
    /\ output_queue = <<>>
    /\ ReduceLoop
    /\ UNCHANGED <<files_total, queues, abortv, mainv, inst, terminate_calls,
                   pump, worker, channels, result, reduce_process,
                   reduce_stdin, progressv, history>>

\* ReduceGet on a LifoQueue: get returns the entry put last
ReduceGetNewest ==
    /\ reduce_pc = "get"
    /\ output_queue # <<>>
    /\ reduce_process = "running"
    /\ result' = output_queue[Len(output_queue)]
    /\ output_queue' = SubSeq(output_queue, 1, Len(output_queue) - 1)
    /\ reduce_pc' = "write"
    /\ UNCHANGED <<files_total, input_queue, processed_files_queue, abortv,
                   mainv, inst, terminate_calls, pump, worker, channels,
                   reduce_process, reduce_stdin, reduce_stdin_closed,
                   progressv, history>>

\* output_queue.get returned a result and reduce_process.poll() is None
\* (shared.py 132-133)
ReduceGet ==
    /\ reduce_pc = "get"
    /\ output_queue # <<>>
    /\ reduce_process = "running"
    /\ result' = Head(output_queue)
    /\ output_queue' = Tail(output_queue)
    /\ reduce_pc' = "write"
    /\ UNCHANGED <<files_total, input_queue, processed_files_queue, abortv,
                   mainv, inst, terminate_calls, pump, worker, channels,
                   reduce_process, reduce_stdin, reduce_stdin_closed,
                   progressv, history>>

\* ReduceGetDead with the write of shared.py 138 placed before the poll:
\* the result is written although the reduce process has ended
ReduceGetDeadWritten ==
    /\ reduce_pc = "get"
    /\ output_queue # <<>>
    /\ reduce_process # "running"
    /\ result' = Head(output_queue)
    /\ output_queue' = Tail(output_queue)
    /\ reduce_stdin' = Append(reduce_stdin, Head(output_queue))
    /\ SetAbort("L136")
    /\ reduce_pc' = "done"
    /\ reduce_stdin_closed' = TRUE
    /\ UNCHANGED <<files_total, input_queue, processed_files_queue, mainv,
                   inst, terminate_calls, pump, worker, channels,
                   reduce_process, progressv, history>>

\* output_queue.get returned a result and the reduce process has ended:
\* abort_event.set(), break, stdin.close() (shared.py 132-137, 143)
ReduceGetDead ==
    /\ reduce_pc = "get"
    /\ output_queue # <<>>
    /\ reduce_process # "running"
    /\ result' = Head(output_queue)
    /\ output_queue' = Tail(output_queue)
    /\ SetAbort("L136")
    /\ reduce_pc' = "done"
    /\ reduce_stdin_closed' = TRUE
    /\ UNCHANGED <<files_total, input_queue, processed_files_queue, mainv,
                   inst, terminate_calls, pump, worker, channels,
                   reduce_process, reduce_stdin, progressv, history>>

\* reduce_process.stdin.write(result) and flush (shared.py 138-140)
ReduceWrite ==
    /\ reduce_pc = "write"
    /\ reduce_process = "running"
    /\ reduce_stdin' = Append(reduce_stdin, result)
    /\ result' = <<>>
    /\ ReduceLoop
    /\ UNCHANGED <<files_total, queues, abortv, mainv, inst, terminate_calls,
                   pump, worker, channels, reduce_process, progressv,
                   history>>

\* the reduce process ended between poll() and write: the write raises
\* IOError, which only `except Empty` would catch; the thread ends with the
\* exception and stdin is not closed (shared.py 138, 141)
ReduceWriteBroken ==
    /\ reduce_pc = "write"
    /\ reduce_process # "running"
    /\ reduce_pc' = "crashed"
    /\ UNCHANGED <<files_total, queues, abortv, mainv, inst, terminate_calls,
                   pump, worker, channels, result, reduce_process,
                   reduce_stdin, reduce_stdin_closed, progressv, history>>

\* ------------------------------------------------------ smr-reduce process
\* the reduce process ends by itself, with a nonzero status
ReducerExits ==
    /\ reduce_process = "running"
    /\ Event("reducer")
    /\ reduce_process' = "exited1"
    /\ UNCHANGED <<files_total, queues, abortv, mainv, inst,
                   terminate_calls, pump, worker, channels, reduce_pc, result,
                   reduce_stdin, reduce_stdin_closed, progressv, outstanding,
                   acks, arrived, emitted>>

\* ---------------------------------------------------------- progress_thread
\* the loop test is taken as in reduce_thread

\* processed_files_queue.get returned a file name (shared.py 175-178)
ProgressGet ==
    /\ progress_pc = "get"
    /\ processed_files_queue # <<>>
    /\ processed_files_queue' = Tail(processed_files_queue)
    /\ files_processed' = files_processed + 1
    /\ ProgressLoop
    /\ UNCHANGED <<files_total, input_queue, output_queue, abortv, mainv,
                   inst, terminate_calls, pump, worker, channels, reducev,
                   history>>

\* ProgressEmpty with the increment of shared.py 177 placed after the try
\* block: a get that timed out is counted too
ProgressEmptyCounted ==
    /\ progress_pc = "get"
    /\ processed_files_queue = <<>>
    /\ files_processed' = files_processed + 1
    /\ ProgressLoop
    /\ UNCHANGED <<files_total, queues, abortv, mainv, inst, terminate_calls,
                   pump, worker, channels, reducev, history>>

\* processed_files_queue.get raised Empty (shared.py 175, 179-180)
ProgressEmpty ==
    /\ progress_pc = "get"
    /\ processed_files_queue = <<>>
    /\ ProgressLoop
    /\ UNCHANGED <<files_total, queues, abortv, mainv, inst, terminate_calls,
                   pump, worker, channels, reducev, files_processed, history>>

\* ------------------------------------------------------- the specification
InitThread(i) ==
    \/ InstanceFailed(i)
    \/ InstanceRunning(i)
    \/ RunCommandOk(i)
    \/ RunCommandFailed(i)
    \/ UseClosedSsh(i)
    \/ CopyConfig(i)

Main ==
    \/ MainInitAborted
    \/ MainInitOk
    \/ \E s \in Sessions : StartWorkerOk(s)
    \/ \E s \in Sessions : StartWorkerFailed(s)
    \/ MainStartHelpers
    \/ MainJoin
    \/ MainInterrupt
    \/ MainFinish
    \/ MainRecvExit
    \/ MainJoinReduce
    \/ MainWaitReduce

Pump(s) ==
    \/ PumpFirstCheck(s)
    \/ PumpFirstWritten(s)
    \/ PumpFirstFailed(s)
    \/ PumpAck(s)
    \/ PumpRequeue(s)
    \/ PumpInvalid(s)
    \/ PumpEof(s)
    \/ PumpCheckAbort(s)
    \/ PumpWritten(s)
    \/ PumpWriteFailed(s)
    \/ PumpExitCheck(s)
    \/ PumpAfter(s)
    \/ PumpWait(s)

Worker(s) ==
    \/ WorkerStartFailed(s)
    \/ WorkerRead(s)
    \/ WorkerEof(s)
    \/ WorkerDownloadFailed(s)
    \/ WorkerMappedQuiet(s)
    \/ WorkerMapped(s)
    \/ WorkerMapRaised(s)

Reduce ==
    \/ ReduceEmpty
    \/ ReduceGet
    \/ ReduceGetDead
    \/ ReduceWrite
    \/ ReduceWriteBroken

Reducer == ReducerExits

Progress == ProgressGet \/ ProgressEmpty

Next ==
    \/ \E i \in Instances : InitThread(i)
    \/ Main
    \/ \E s \in Sessions : Pump(s)
    \/ \E s \in Sessions : Worker(s)
    \/ \E s \in Sessions : ReadResult(s)
    \/ Reduce
    \/ Reducer
    \/ Progress

Spec == Init /\ [][Next]_vars


\* ---------------------------------------------------------- the properties
\* how often x occurs in seq
Count(seq, x) == Cardinality({k \in DOMAIN seq : seq[k] = x})

\* the abort triggers of the specification that have occurred: an instance
\* that is not reachable or not running, the reduce process ending, a user
\* interrupt
Triggers == occurred \cap {"instance", "connect", "reducer", "interrupt"}

\* a bootstrap command failed, or a worker answered an item otherwise than
\* with the one line "+item"
Faults == occurred \cap {"command", "start", "download", "raise"}

\* the source lines at which abort_event is set on a trigger
TriggerLines == {"L92", "L136", "L145", "L277"}

RECURSIVE Sum(_, _)
Sum(bag, n) == IF n = 0 THEN 0 ELSE bag[n] + Sum(bag, n - 1)

\* how many assignments of session s are outstanding
Outstanding(s) == Sum(outstanding[s], MaxItems)

\* C1: with workers that answer every assigned item with the one line
\* "+item" and with no abort trigger, the run ends with ProcessedCounter
\* equal to the number of items and with no item acknowledged twice.
C1_CounterReachesTotal ==
    (ProcessExited /\ Triggers = {} /\ Faults = {})
        => /\ files_processed = files_total
           /\ \A f \in Items : acks[f] <= 1


\* C2: monotonic suppression.  In no step taken with abort_event set does a
\* pump take an item from the TaskQueue and write it to an assignment
\* endpoint, whatever the pump was doing when the event was set.
C2_NoAssignmentAfterAbort ==
    [][abort_event => \A s \in Sessions : Len(stdin'[s]) <= Len(stdin[s])]_vars

\* C3: a session never has more than one outstanding assignment: an item is
\* written to its assignment endpoint only when the items written before
\* have each been answered by a "+" or "!" line for that item.
C3_OneOutstandingAssignment == \A s \in Sessions : Outstanding(s) <= 1

\* how many assignments of item f, over all sessions, no status line has
\* answered
Assigned(f) == Sum([s \in Sessions |-> outstanding[s][f]], NumSessions)

\* in how many places item f is: copies in the TaskQueue, unanswered
\* assignments, and one more once it is retired
Places(f) ==
    Count(input_queue, f) + Assigned(f) + (IF acks[f] > 0 THEN 1 ELSE 0)

\* C4: every work item is in exactly one of the states queued (one copy in
\* the TaskQueue), assigned (to one session) or retired: never in two, never
\* twice in one, never in none.
C4_ExactlyOneState == \A f \in 1..files_total : Places(f) = 1

\* how often item f was written to the assignment endpoint of session s and
\* not yet read by its worker
Pending(s, f) == Count(stdin[s], f)

\* C5: with map.py as the worker an item gets at most one success
\* acknowledgment (the master never processes two `+` lines for it), and no
\* step puts an acknowledged item into the TaskQueue or writes it to an
\* assignment endpoint.
C5_AtMostOneAck ==
    /\ [](\A f \in Items : acks[f] <= 1)
    /\ [][\A f \in Items :
            acks[f] >= 1 =>
                /\ Count(input_queue', f) <= Count(input_queue, f)
                /\ \A s \in Sessions : Pending(s, f)' <= Pending(s, f)]_vars

\* every started worker has ended by itself, with status 0
AllWorkersFinished ==
    \A s \in Sessions : worker[s].pc = "exited" /\ worker[s].code = 0

\* C6: when no abort trigger occurs and all workers finish, every result
\* line a worker wrote is in the Reducer's input, once, when that input is
\* closed.
C6_EveryResultReduced ==
    (reduce_stdin_closed /\ Triggers = {} /\ Faults = {} /\ AllWorkersFinished)
        => \A s \in Sessions, f \in Items :
              Count(reduce_stdin, <<s, f>>) = Count(arrived, <<s, f>>)
                                            + Count(stdout[s], <<s, f>>)

\* C7: with abort_event set no pump is left waiting for good: as long as
\* the process runs, a pump that has started and has not ended can take a
\* step or its worker can, so that every pump ends and the main thread's
\* joins return.
C7_NoPumpWaitsForGood ==
    abort_event =>
        \A s \in Sessions :
            \/ pump[s] = "off"
            \/ PumpEnded(s)
            \/ ProcessExited
            \/ ENABLED Pump(s)
            \/ ENABLED Worker(s)

\* C8: abort_event is set only on a trigger: an instance that is not running
\* or not reachable, the reduce process found terminated, a user interrupt.
C8_AbortOnlyOnTrigger == abort_event => abortBy \in TriggerLines

\* C9: when abort_event was set on a trigger, a failure to connect to an
\* instance in start_worker included, the process does not exit before
\* termination of all instances was requested.
C9_TerminateBeforeExit ==
    (ProcessExited /\ abortBy \in TriggerLines) => terminate_calls >= 1

\* C10: bootstrap is fail-fast.  Once a bootstrap command has failed on an
\* instance and its thread has ended, abort_event is set and no worker
\* session is started.
C10_BootstrapFailFast ==
    \A i \in Instances :
        inst[i].pc = "crashed" =>
            /\ abort_event
            /\ mainpc \in {"join_init", "exit1"}
            /\ \A s \in Sessions : pump[s] = "off"

\* no item was taken from the TaskQueue and no session was started
NothingAssigned ==
    /\ input_queue = Seeded(files_total)
    /\ \A s \in Sessions :
          pump[s] = "off" /\ worker[s] = NoWorker /\ stdin[s] = <<>>

\* C11: when an instance has ended its wait in a status other than running,
\* then, in every interleaving of the initialization threads: abort_event is
\* set once all these threads have ended, no item is taken from the
\* TaskQueue and no session started at any time, and when the main thread
\* has come back from its joins, termination of all instances has been
\* requested exactly once (never more often before).
C11_InstanceFailureAborts ==
    "instance" \in occurred =>
        /\ (\A i \in Instances : InitThreadEnded(i)) => abort_event
        /\ NothingAssigned
        /\ terminate_calls = IF mainpc = "join_init" THEN 0 ELSE 1

\* both instances failed, concurrently, and the main thread has ended
C11_Witness ==
    /\ occurred = {"instance"}
    /\ events = 2
    /\ mainpc = "exit1"
    /\ terminate_calls = 1

\* reduce_thread has taken a result, found the reduce process terminated and
\* left its loop with that result in hand (shared.py 133-137)
FoundTerminated == reduce_pc = "done" /\ result # <<>>

\* C12: the step in which reduce_thread takes a result and finds the reduce
\* process terminated sets abort_event and writes nothing to the Reducer's
\* input, and no later step writes anything to it.
C12_NoWriteToDeadReducer ==
    [][FoundTerminated' => (abort_event' /\ reduce_stdin' = reduce_stdin)]_vars

\* the Reducer was found terminated and the job has run to its end
C12_Witness ==
    /\ FoundTerminated
    /\ reduce_process = "exited1"
    /\ mainpc = "exit1"

\* C13: for every interleaving of the sessions' stdout threads, what has
\* been written to the Reducer's input is a prefix of the sequence in which
\* the result lines were put into output_queue: nothing is reordered,
\* duplicated or skipped between two written entries.
C13_WrittenIsPrefixOfArrival ==
    /\ Len(reduce_stdin) <= Len(arrived)
    /\ reduce_stdin = SubSeq(arrived, 1, Len(reduce_stdin))

\* two results of two sessions were written, the result of item 2 before
\* the result of item 1: arrival order, not submission order
C13_Witness ==
    /\ Len(reduce_stdin) = 2
    /\ reduce_stdin[1][1] # reduce_stdin[2][1]
    /\ reduce_stdin[1][2] = 2
    /\ reduce_stdin[2][2] = 1

\* the pump of session s has read a "!file_name" line and is at the
\* input_queue.put of ec2.py 48
AtRequeue(s) ==
    pump[s] = "read" /\ stderr[s] # <<>> /\ Line(s)[1] = "!"

\* C14: the TaskQueue never holds more than its capacity files_total, and
\* whenever a pump is about to put a failed item back there is a free slot:
\* the put does not block.
C14_RequeueNeverBlocks ==
    /\ Len(input_queue) <= files_total
    /\ \A s \in Sessions : AtRequeue(s) => Len(input_queue) < files_total

\* a failed item was put back and the TaskQueue of two items is full again
C14_Witness ==
    /\ "download" \in occurred
    /\ files_total = 2
    /\ Len(input_queue) = files_total

\* C15: files_processed never decreases and is at all times between 0 and
\* files_total, whatever "+" lines the sessions receive.
C15_CounterWithinBounds ==
    /\ [](0 <= files_processed /\ files_processed <= files_total)
    /\ [][files_processed' >= files_processed]_vars

\* the counter has reached files_total = 2 with two "+" lines for item 1 and
\* none for item 2
C15_Witness ==
    /\ files_total = 2
    /\ files_processed = files_total
    /\ acks[1] = 2

\* C16: abort_event is set-once: no step of any thread takes it from true
\* back to false.
C16_AbortSetOnce == [][abort_event => abort_event']_vars

\* abort_event was set by a pump (line 37) and set again by the main thread
\* (line 277 or 286), and is still true
C16_Witness ==
    /\ abort_event
    /\ abortBy = "L37"
    /\ mainpc \in {"recv", "join_reduce", "wait_reduce", "done", "exit1"}
    /\ terminate_calls = 1

\* the step in which the pump of session s handles the line at the head of
\* its status endpoint
Handles(s) == stderr[s] # <<>> /\ stderr'[s] = Tail(stderr[s])

\* C17: the step that handles a "!file_name" line, however often that file
\* has failed before, puts the file name into the TaskQueue exactly once and
\* leaves the acknowledgments, files_processed and abort_event as they are.
C17_FailureLineRequeuesOnce ==
    [][\A s \in Sessions :
          (Handles(s) /\ Line(s)[1] = "!") =>
              /\ input_queue' = Append(input_queue, Line(s)[2])
              /\ processed_files_queue' = processed_files_queue
              /\ files_processed' = files_processed
              /\ abort_event' = abort_event]_vars

\* item 1 has failed twice and was put back twice
C17_Witness ==
    /\ occurred = {"download"}
    /\ events = 2
    /\ Count(input_queue, 1) = 2

\* C18: the step that handles a status line starting with neither "+" nor
\* "!" adds nothing to the TaskQueue, acknowledges nothing, leaves
\* files_processed and abort_event as they are, and the pump goes on with
\* its loop.
C18_InvalidLineIgnored ==
    [][\A s \in Sessions :
          (Handles(s) /\ Line(s)[1] \notin {"+", "!"}) =>
              /\ input_queue' = input_queue
              /\ processed_files_queue' = processed_files_queue
              /\ acks' = acks
              /\ files_processed' = files_processed
              /\ abort_event' = abort_event
              /\ pump'[s] = "chk"]_vars

\* a worker's MAP_FUNC raised and the pump has handled the traceback line
C18_Witness ==
    \E s \in Sessions :
        /\ worker[s].pc = "exited"
        /\ worker[s].code = 1
        /\ stderr[s] = <<>>
        /\ pump[s] = "chk"

\* the worker of session s has exited with a nonzero status
WorkerFailed(s) == worker[s].pc = "exited" /\ worker[s].code # 0

\* C19: a worker that has exited with a nonzero status does not make the
\* pump of its session set abort_event: no step of that pump takes
\* abort_event from false to true, so that the other sessions go on taking
\* and assigning items.
C19_WorkerExitDoesNotAbort ==
    [][\A s \in Sessions :
          (WorkerFailed(s) /\ pump'[s] # pump[s]) =>
              abort_event' = abort_event]_vars

\* the step in which the pump of session s, in write_file_to_descriptor,
\* closes the write side of its assignment endpoint (ec2.py 36, 56)
ClosesEndpoint(s) ==
    /\ pump[s] \in {"firstwrite", "write"}
    /\ ~stdin_closed[s]
    /\ stdin_closed'[s]

\* C20: a pump closes the write side of its assignment endpoint only when
\* the TaskQueue is exhausted (nothing is queued and nothing is assigned to
\* any session, from where it could fail and be queued again), and closing
\* it does not set abort_event, on the first take either.
C20_ClosesOnlyWhenExhausted ==
    [][\A s \in Sessions :
          ClosesEndpoint(s) =>
              /\ input_queue = <<>>
              /\ \A f \in Items : Assigned(f) = 0
              /\ abort_event' = abort_event]_vars

\* abort_event was not set while a pump was running: it is clear, or was set
\* by the main thread after its joins of the pumps (ec2.py 286)
NoAbortWhilePumping == abortBy \in {"none", "L286"}

\* every pump was started and has ended
AllPumpsEnded == \A s \in Sessions : PumpEnded(s)

\* C21: no failed item is stranded.  In a run with no abort, in which no
\* worker ends leaving an assigned item without a status line, a pump that
\* puts an item back on a "!" line makes its next take after that put, so
\* that the TaskQueue is empty once all pumps have ended.
C21_NoItemStranded ==
    (AllPumpsEnded /\ NoAbortWhilePumping /\ occurred \cap {"start", "raise"} = {})
        => input_queue = <<>>

\* all pumps have ended without an abort in a run in which an item failed
\* and was put back
C21_Witness ==
    /\ AllPumpsEnded
    /\ NoAbortWhilePumping
    /\ "download" \in occurred
    /\ occurred \cap {"start", "raise"} = {}
    /\ input_queue = <<>>

\* C22: every item a pump's take removes from the TaskQueue is written to
\* the assignment endpoint of that pump's session or is put back into the
\* TaskQueue, also when the write fails with an I/O error after the take or
\* the worker has already exited: the item is not lost.
C22_TakenItemNotLost ==
    [][\A s \in Sessions :
          (/\ pump[s] \in {"firstwrite", "write"}
           /\ pump'[s] # pump[s]
           /\ input_queue # <<>>
           /\ input_queue' # Append(input_queue, Head(input_queue)))
          => \/ stdin'[s] = Append(stdin[s], Head(input_queue))
             \/ Count(input_queue', Head(input_queue))
                    = Count(input_queue, Head(input_queue))]_vars

====
